---- MODULE Spec2Model ----
(***************************************************************************)
(* SimpleRouterMgr (proto/demo_grpc/simple_router_mgr.cpp): the controller *)
(* of a simple IPv4 router.  It keeps interfaces, a next-hop table and     *)
(* per-destination queues of punted packets, programs the device through   *)
(* table-write RPCs, answers and issues ARP, and reloads the pipeline.     *)
(*                                                                         *)
(* Packets are modelled by the values of their wire fields (a multi-byte   *)
(* field is the big-endian number of its bytes: the code stores with       *)
(* htons/htonl and loads with ntohs/ntohl, so the host value of a field is *)
(* that number).  A MAC address is the tuple of its six bytes.             *)
(***************************************************************************)
EXTENDS Integers, Sequences, FiniteSets, TLC

VARIABLES
  ifaces,         \* std::vector<Iface>: the controller-side interfaces
  next_hops,      \* map nhop ip -> egress port
  packet_queues,  \* map dst ip -> queue of punted packets
  p4info,         \* the active pipeline description (a handle)
  destroyed,      \* the handles pi_destroy_config has released
  op,             \* the operation that took the last step: [name, arg, rc]
  dev,            \* the device RPCs that operation has issued so far
  out,            \* the packet-outs that operation has sent so far
  actor,          \* the io_service thread: [pc, cmd, rpcs]
  events,         \* the io_service's queue of posted handlers
  nposted,        \* how many handlers were posted so far
  cli             \* the API caller's thread: [pc, arg, promise]

vars == <<ifaces, next_hops, packet_queues, p4info, destroyed, op, dev, out,
          actor, events, nposted, cli>>

routerVars == <<ifaces, next_hops, packet_queues>>

----------------------------------------------------------------------------
(* Bounds of the model *)

MaxIfaces == 2
MaxQueue == 2
MaxReloads == 1
MaxErrors == 1
MaxPosts == 3

----------------------------------------------------------------------------
(* Program constants *)

NO_ARP_ENTRY == 0
ARP_MSG == 1
DATA_PKT == 2

\* ::google::rpc::Code::OK, and a code that is not OK (google.rpc.Code UNKNOWN)
OK == 0
UNKNOWN == 2

\* static_config_: the two routes and the two interfaces
StaticNhop1 == 167772170
StaticNhop2 == 167772426
StaticIp1 == 167772161
StaticIp2 == 167772417
StaticHw1 == <<0, 170, 187, 0, 0, 0>>
StaticHw2 == <<0, 170, 187, 0, 0, 1>>

EtherTypeArp == 2054
ArpHwType == 1
ArpProtoType == 2048
EtherTypeIp == ArpProtoType
MacLen == 6
IpLen == 4
BroadcastMac == <<255, 255, 255, 255, 255, 255>>

\* sizeof the four headers (their layouts are fixed, without padding)
CpuHdrSize == 8 + 2 + 2
EthHdrSize == 6 + 6 + 2
ArpHdrSize == 2 + 2 + 1 + 1 + 2 + 6 + 4 + 6 + 4
Ipv4HdrSize == 20

----------------------------------------------------------------------------
(* The values the model draws its inputs from *)

\* A third interface: on port 1 like the first static one, with another MAC,
\* and with the IP address of the second static one.
OtherHw == <<0, 170, 187, 0, 0, 3>>
HostMacA == <<0, 170, 187, 0, 0, 2>>
HostMacB == <<0, 170, 187, 0, 0, 4>>

Iface_make(port_num, ip_addr, mac_addr) ==
  [port_num |-> port_num, ip_addr |-> ip_addr, mac_addr |-> mac_addr]

IfaceChoices ==
  { Iface_make(1, StaticIp1, StaticHw1),
    Iface_make(2, StaticIp2, StaticHw2),
    Iface_make(1, StaticIp2, OtherHw) }

Nhops == {StaticNhop1, StaticNhop2}
Ports == {1, 2}
HostMacs == {HostMacA, HostMacB}
ErrCounts == 0 .. MaxErrors
Codes == {OK, UNKNOWN}

EmptyMap == [x \in {} |-> 0]

NoArp == [hw_type |-> 0, proto_type |-> 0, hw_addr_len |-> 0, proto_addr_len |-> 0,
          opcode |-> 0, hw_src_addr |-> <<0, 0, 0, 0, 0, 0>>, proto_src_addr |-> 0,
          hw_dst_addr |-> <<0, 0, 0, 0, 0, 0>>, proto_dst_addr |-> 0]

\* A punted IPv4 packet: metadata header, Ethernet header, IPv4 header, payload.
IpPacket(dst, id) ==
  [size |-> CpuHdrSize + EthHdrSize + Ipv4HdrSize,
   zeros |-> 0, reason |-> NO_ARP_ENTRY, port |-> 0,
   dst_addr |-> <<0, 0, 0, 0, 0, 0>>, src_addr |-> HostMacB, ethertype |-> EtherTypeIp,
   ip_dst_addr |-> dst, payload |-> id, arp |-> NoArp]

\* A punted ARP packet.
ArpPacket(opcode, hw_src, proto_src, proto_dst) ==
  [size |-> CpuHdrSize + EthHdrSize + ArpHdrSize,
   zeros |-> 0, reason |-> ARP_MSG, port |-> 1,
   dst_addr |-> BroadcastMac, src_addr |-> hw_src, ethertype |-> EtherTypeArp,
   ip_dst_addr |-> 0, payload |-> 0,
   arp |-> [hw_type |-> ArpHwType, proto_type |-> ArpProtoType,
            hw_addr_len |-> MacLen, proto_addr_len |-> IpLen,
            opcode |-> opcode, hw_src_addr |-> hw_src, proto_src_addr |-> proto_src,
            hw_dst_addr |-> <<0, 0, 0, 0, 0, 0>>, proto_dst_addr |-> proto_dst]]

----------------------------------------------------------------------------
(* Maps (std::map / std::unordered_map) *)

Put(m, k, v) == [x \in DOMAIN m \cup {k} |-> IF x = k THEN v ELSE m[x]]
Erase(m, k) == [x \in DOMAIN m \ {k} |-> m[x]]

\* rc |= x on ints: the bitwise or
RECURSIVE BitOr(_, _)
BitOr(a, b) ==
  IF a = 0 THEN b
  ELSE IF b = 0 THEN a
  ELSE (IF a % 2 = 1 \/ b % 2 = 1 THEN 1 ELSE 0) + 2 * BitOr(a \div 2, b \div 2)

----------------------------------------------------------------------------
(* Table entries and the table-write RPC *)

\* pi_p4info_*_id_from_name(p4info, name): the id a name has in a description
Id(info, name) == <<info, name>>

\* The TableWrite RPC of one INSERT; the device answers with `errs` errors.
TableWrite(match_action_entry, errs) ==
  [rpc |-> "TableWrite", type |-> "INSERT", entry |-> match_action_entry,
   errors |-> errs]

\* Returns rep.errors().size().
add_one_entry(match_action_entry, errs) ==
  [rc |-> errs, rpcs |-> <<TableWrite(match_action_entry, errs)>>]

\* The ipv4_lpm entry of add_route_: the match value is the next hop.
RouteEntry(pLen, nhop, port) ==
  [table_id |-> Id(p4info, "ipv4_lpm"),
   match |-> [field_id |-> Id(p4info, "ipv4.dstAddr"), kind |-> "lpm",
              value |-> nhop, prefix_len |-> pLen],
   action_id |-> Id(p4info, "set_nhop"),
   params |-> <<[param |-> "nhop_ipv4", value |-> nhop],
                [param |-> "port", value |-> port]>>]

add_route_(nh, prefix, pLen, nhop, port, update_mode, errs) ==
  LET w == IF update_mode = "DEVICE_STATE"
           THEN add_one_entry(RouteEntry(pLen, nhop, port), errs)
           ELSE [rc |-> 0, rpcs |-> <<>>]
  IN [rc |-> w.rc, rpcs |-> w.rpcs,
      next_hops |-> IF update_mode = "CONTROLLER_STATE" THEN Put(nh, nhop, port)
                    ELSE nh]

add_arp_entry(addr, mac_addr, errs) ==
  add_one_entry(
    [table_id |-> Id(p4info, "forward"),
     match |-> [field_id |-> Id(p4info, "routing_metadata.nhop_ipv4"),
                kind |-> "exact", value |-> addr],
     action_id |-> Id(p4info, "set_dmac"),
     params |-> <<[param |-> "dmac", value |-> mac_addr]>>], errs)

assign_mac_addr(port, mac_addr, errs) ==
  add_one_entry(
    [table_id |-> Id(p4info, "send_frame"),
     match |-> [field_id |-> Id(p4info, "standard_metadata.egress_port"),
                kind |-> "exact", value |-> port],
     action_id |-> Id(p4info, "rewrite_mac"),
     params |-> <<[param |-> "smac", value |-> mac_addr]>>], errs)

\* The write's error count is printed and dropped: rc stays 0.
set_default_entries(errs) ==
  LET w == add_one_entry(
             [table_id |-> Id(p4info, "forward"),
              match |-> [field_id |-> Id(p4info, "routing_metadata.nhop_ipv4"),
                         kind |-> "exact", value |-> 0],
              action_id |-> Id(p4info, "_drop"),
              params |-> <<>>], errs)
  IN [rc |-> 0, rpcs |-> w.rpcs]

\* for (const auto &iface : ifaces) if (test) ...: of the indices S of the
\* interfaces that pass the test, the one the loop meets first (0: none).
FirstIndex(S) ==
  IF S = {} THEN 0 ELSE CHOOSE i \in S : \A j \in S : i <= j

add_iface_(ifs, port_num, ip_addr, mac_addr, update_mode, errs) ==
  LET ifs2 == IF update_mode = "CONTROLLER_STATE"
              THEN Append(ifs, Iface_make(port_num, ip_addr, mac_addr))
              ELSE ifs
      i == FirstIndex({k \in 1 .. Len(ifs2) : ifs2[k].port_num = port_num})
  IN [ifaces |-> ifs2,
      rpcs |-> IF update_mode = "DEVICE_STATE" /\ i # 0
               THEN assign_mac_addr(port_num, ifs2[i].mac_addr, errs).rpcs
               ELSE <<>>]

static_config_(ifs, nh, update_mode, errs) ==
  LET r1 == add_route_(nh, StaticNhop1, 32, StaticNhop1, 1, update_mode, errs)
      r2 == add_route_(r1.next_hops, StaticNhop2, 32, StaticNhop2, 2, update_mode, errs)
      i1 == add_iface_(ifs, 1, StaticIp1, StaticHw1, update_mode, errs)
      i2 == add_iface_(i1.ifaces, 2, StaticIp2, StaticHw2, update_mode, errs)
  IN [rc |-> 0, next_hops |-> r2.next_hops, ifaces |-> i2.ifaces,
      rpcs |-> r1.rpcs \o r2.rpcs \o i1.rpcs \o i2.rpcs]

----------------------------------------------------------------------------
(* ARP and the punted packets *)

set_cpu_header(pkt, reason, port) ==
  [pkt EXCEPT !.zeros = 0, !.reason = reason, !.port = port]

set_eth_header(pkt, dst_addr, src_addr, ethertype) ==
  [pkt EXCEPT !.dst_addr = dst_addr, !.src_addr = src_addr, !.ethertype = ethertype]

set_arp_header(pkt, opcode, hw_src_addr, proto_src_addr, hw_dst_addr, proto_dst_addr) ==
  [pkt EXCEPT !.arp = [hw_type |-> ArpHwType, proto_type |-> ArpProtoType,
                       hw_addr_len |-> MacLen, proto_addr_len |-> IpLen,
                       opcode |-> opcode,
                       hw_src_addr |-> hw_src_addr, proto_src_addr |-> proto_src_addr,
                       hw_dst_addr |-> hw_dst_addr, proto_dst_addr |-> proto_dst_addr]]

\* new char[rep_size]: a buffer of the three headers, every field then set
ArpBuffer ==
  [size |-> CpuHdrSize + EthHdrSize + ArpHdrSize, zeros |-> 0, reason |-> 0,
   port |-> 0, dst_addr |-> <<0, 0, 0, 0, 0, 0>>, src_addr |-> <<0, 0, 0, 0, 0, 0>>,
   ethertype |-> 0, ip_dst_addr |-> 0, payload |-> 0, arp |-> NoArp]

\* The ARP reply handle_arp_request builds for `iface`.
ArpReplyOf(iface, arp_header) ==
  set_arp_header(
    set_eth_header(
      set_cpu_header(ArpBuffer, ARP_MSG, iface.port_num),
      arp_header.hw_src_addr, iface.mac_addr, EtherTypeArp),
    2, iface.mac_addr, iface.ip_addr,
    arp_header.hw_src_addr, arp_header.proto_src_addr)

\* handle_arp_request without the return of line 490
handle_arp_request_all(arp_header) ==
  LET S == {i \in 1 .. Len(ifaces) : ifaces[i].ip_addr = arp_header.proto_dst_addr}
      RECURSIVE Replies(_)
      Replies(i) == IF i > Len(ifaces) THEN <<>>
                    ELSE (IF i \in S THEN <<ArpReplyOf(ifaces[i], arp_header)>> ELSE <<>>)
                         \o Replies(i + 1)
  IN Replies(1)

\* The packet-outs of handle_arp_request: the reply of the first interface
\* that has the target address, or none.
handle_arp_request(arp_header) ==
  LET i == FirstIndex({k \in 1 .. Len(ifaces) :
                          ifaces[k].ip_addr = arp_header.proto_dst_addr})
  IN IF i = 0 THEN <<>> ELSE <<ArpReplyOf(ifaces[i], arp_header)>>

\* The packet-outs of send_arp_request: the request out of the first
\* interface on `port`, or none.
send_arp_request(port, dst_addr) ==
  LET i == FirstIndex({k \in 1 .. Len(ifaces) : ifaces[k].port_num = port})
  IN IF i = 0 THEN <<>>
     ELSE <<set_arp_header(
              set_eth_header(
                set_cpu_header(ArpBuffer, ARP_MSG, port),
                BroadcastMac, ifaces[i].mac_addr, EtherTypeArp),
              1, ifaces[i].mac_addr, ifaces[i].ip_addr, BroadcastMac, dst_addr)>>

\* push_back as a push at the front would do it
push_front(queue, pkt) == <<pkt>> \o queue

\* queue.push_back
push_back(queue, pkt) == Append(queue, pkt)

\* packet_queues[dst_addr]: creates the queue if it does not exist
QueueOf(dst_addr) ==
  IF dst_addr \in DOMAIN packet_queues THEN packet_queues[dst_addr] ELSE <<>>

\* handle_ip without the return of line 567
handle_ip_unchecked(pkt_copy, dst_addr) ==
  /\ packet_queues' = Put(packet_queues, dst_addr,
                          Append(IF dst_addr \in DOMAIN packet_queues
                                 THEN packet_queues[dst_addr] ELSE <<>>, pkt_copy))
  /\ out' = IF dst_addr \in DOMAIN next_hops
            THEN send_arp_request(next_hops[dst_addr], dst_addr) ELSE <<>>
  /\ UNCHANGED next_hops

handle_ip(pkt_copy, dst_addr) ==
  IF dst_addr \notin DOMAIN next_hops
  THEN /\ out' = <<>>
       /\ UNCHANGED <<packet_queues, next_hops>>
  ELSE /\ packet_queues' = Put(packet_queues, dst_addr,
                               push_back(QueueOf(dst_addr), pkt_copy))
       /\ out' = send_arp_request(next_hops[dst_addr], dst_addr)
       /\ UNCHANGED next_hops

\* Reinject without the memcpy of line 507
Reinject_stale_mac(p, port, mac) == [p EXCEPT !.zeros = 0, !.reason = DATA_PKT, !.port = port]

\* One queued packet as handle_arp_reply reinjects it.
Reinject(p, port, mac) ==
  [set_cpu_header(p, DATA_PKT, port) EXCEPT !.dst_addr = mac]

\* next_hops[dst_addr]: inserts port 0 if the key is absent
NextHopsAt(nh, dst_addr) ==
  IF dst_addr \in DOMAIN nh THEN nh ELSE Put(nh, dst_addr, 0)

\* handle_arp_reply with next_hops[dst_addr] read once, ahead of the lookup
\* of the queue
handle_arp_reply_hoisted(arp_header, errs) ==
  LET dst_addr == arp_header.proto_src_addr
      nh == NextHopsAt(next_hops, dst_addr)
  IN /\ dev' = add_arp_entry(dst_addr, arp_header.hw_src_addr, errs).rpcs
     /\ next_hops' = nh
     /\ IF dst_addr \in DOMAIN packet_queues
        THEN /\ out' = [i \in 1 .. Len(packet_queues[dst_addr]) |->
                          Reinject(packet_queues[dst_addr][i], nh[dst_addr],
                                   arp_header.hw_src_addr)]
             /\ packet_queues' = Erase(packet_queues, dst_addr)
        ELSE /\ out' = <<>>
             /\ UNCHANGED packet_queues

handle_arp_reply(arp_header, errs) ==
  LET dst_addr == arp_header.proto_src_addr
      nh == NextHopsAt(next_hops, dst_addr)
  IN /\ dev' = add_arp_entry(dst_addr, arp_header.hw_src_addr, errs).rpcs
     /\ IF dst_addr \in DOMAIN packet_queues
        THEN /\ out' = [i \in 1 .. Len(packet_queues[dst_addr]) |->
                          Reinject(packet_queues[dst_addr][i], nh[dst_addr],
                                   arp_header.hw_src_addr)]
             /\ next_hops' = IF packet_queues[dst_addr] = <<>> THEN next_hops ELSE nh
             /\ packet_queues' = Erase(packet_queues, dst_addr)
        ELSE /\ out' = <<>>
             /\ UNCHANGED <<packet_queues, next_hops>>

\* handle_arp's default case is assert(0): the command aborts the process in
\* a build with assertions and does nothing in a build without (NDEBUG).
UnknownOpcode(arp_header) == arp_header.opcode \notin {1, 2}

handle_arp(arp_header, errs) ==
  IF arp_header.opcode = 1
  THEN /\ out' = handle_arp_request(arp_header)
       /\ dev' = <<>>
       /\ UNCHANGED <<packet_queues, next_hops>>
  ELSE IF arp_header.opcode = 2
  THEN handle_arp_reply(arp_header, errs)
  ELSE /\ out' = <<>>
       /\ dev' = <<>>
       /\ UNCHANGED <<packet_queues, next_hops>>

\* PacketHandler::operator() without the size checks of lines 115 and 121
Dispatch_unchecked_size(pkt) ==
  IF pkt.size < CpuHdrSize THEN "drop"
  ELSE IF pkt.zeros # 0 THEN "drop"
  ELSE IF pkt.size - CpuHdrSize < EthHdrSize THEN "drop"
  ELSE IF pkt.reason = NO_ARP_ENTRY THEN "handle_ip"
  ELSE IF pkt.reason = ARP_MSG THEN "handle_arp"
  ELSE "drop"

\* Which handler PacketHandler::operator() hands the packet to
\* ("drop": none: the packet is too short, its reserved bytes are not zero,
\* or its reason is neither NO_ARP_ENTRY nor ARP_MSG).
Dispatch(pkt) ==
  IF pkt.size < CpuHdrSize THEN "drop"
  ELSE IF pkt.zeros # 0 THEN "drop"
  ELSE IF pkt.size - CpuHdrSize < EthHdrSize THEN "drop"
  ELSE IF pkt.reason = NO_ARP_ENTRY
  THEN (IF pkt.size - (CpuHdrSize + EthHdrSize) < Ipv4HdrSize THEN "drop"
        ELSE "handle_ip")
  ELSE IF pkt.reason = ARP_MSG
  THEN (IF pkt.size - (CpuHdrSize + EthHdrSize) < ArpHdrSize THEN "drop"
        ELSE "handle_arp")
  ELSE "drop"

PacketHandler(pkt_copy, errs) ==
  /\ IF Dispatch(pkt_copy) = "handle_ip"
     THEN /\ handle_ip(pkt_copy, pkt_copy.ip_dst_addr)
          /\ dev' = <<>>
     ELSE IF Dispatch(pkt_copy) = "handle_arp"
     THEN handle_arp(pkt_copy.arp, errs)
     ELSE /\ out' = <<>>
          /\ dev' = <<>>
          /\ UNCHANGED <<packet_queues, next_hops>>
  /\ UNCHANGED <<ifaces, p4info, destroyed>>

\* Whether the command ends in assert(0).
Asserts(pkt) == Dispatch(pkt) = "handle_arp" /\ UnknownOpcode(pkt.arp)

----------------------------------------------------------------------------
(* Pipeline reload: update_config_, in three steps that end at its RPCs *)

\* A raw configuration: whether pi_add_config can parse it.
Config(valid) == [valid |-> valid]

DeviceUpdateStart(info, config_buffer, code) ==
  [rpc |-> "DeviceUpdateStart", p4info |-> info, device_data |-> config_buffer,
   code |-> code]

DeviceUpdateEnd(code) == [rpc |-> "DeviceUpdateEnd", code |-> code]

\* The handle pi_add_config gives the description it allocates.
NewHandle ==
  1 + (CHOOSE h \in destroyed \cup {p4info} : \A g \in destroyed \cup {p4info} : g <= h)

\* pi_add_config's result is not looked at: when the parse fails p4info_new
\* is read uninitialized, and `garbage` is the value it then happens to hold
\* (0: no description at all; or the handle of the one that was active).
Garbage == {0, p4info}

p4info_new(config_buffer, garbage) ==
  IF config_buffer.valid THEN NewHandle ELSE garbage

\* Lines 654-677: swap the description, release the previous one, send
\* update_start.  With p4info_new indeterminate, serializing it may end the
\* process before the RPC (`crash`).
update_config_start(config_buffer, garbage, code, crash) ==
  /\ p4info' = p4info_new(config_buffer, garbage)
  /\ destroyed' = destroyed \cup {p4info}
  /\ dev' = IF crash THEN <<>>
            ELSE <<DeviceUpdateStart(p4info', config_buffer, code)>>
  /\ out' = <<>>
  /\ UNCHANGED routerVars

\* The re-push with lines 679 and 680 in the other order
update_config_repush_swapped(sofar, errs) ==
  /\ dev' = sofar \o static_config_(ifaces, next_hops, "DEVICE_STATE", errs).rpcs
                  \o set_default_entries(errs).rpcs
  /\ out' = <<>>
  /\ UNCHANGED <<routerVars, p4info, destroyed>>

\* Lines 679-680: the default entries, then the static configuration, to the
\* device only (`sofar`: the RPCs of the handler up to here).
update_config_repush(sofar, errs) ==
  /\ dev' = sofar \o set_default_entries(errs).rpcs
                  \o static_config_(ifaces, next_hops, "DEVICE_STATE", errs).rpcs
  /\ out' = <<>>
  /\ UNCHANGED <<routerVars, p4info, destroyed>>

\* Lines 684-696: send update_end.
update_config_end(sofar, code) ==
  /\ dev' = Append(sofar, DeviceUpdateEnd(code))
  /\ out' = <<>>
  /\ UNCHANGED <<routerVars, p4info, destroyed>>

\* update_config_ without the checks of lines 673 and 690
update_config_rc_unchecked(code) == 0

\* What update_config_ returns after the answer to an update RPC.
update_config_rc(code) == IF code # OK THEN 1 ELSE 0

----------------------------------------------------------------------------
(* The threads: the io_service thread that runs the posted handlers (the   *)
(* actor), the packet-in receive thread, and a thread that calls the API.  *)

Cmd(kind, arg, ticket) == [kind |-> kind, arg |-> arg, ticket |-> ticket]
NoCmd == Cmd("none", 0, 0)

ActorIdle == [pc |-> "idle", cmd |-> NoCmd, rpcs |-> <<>>]

NoPromise == [state |-> "none", value |-> 0]
CliIdle == [pc |-> "idle", arg |-> 0, promise |-> NoPromise]

Op(name, arg, rc) == [name |-> name, arg |-> arg, rc |-> rc]

Init ==
  /\ ifaces = <<>>
  /\ next_hops = EmptyMap
  /\ packet_queues = EmptyMap
  /\ p4info = 1
  /\ destroyed = {}
  /\ op = Op("init", 0, 0)
  /\ dev = <<>>
  /\ out = <<>>
  /\ actor = ActorIdle
  /\ events = <<>>
  /\ nposted = 0
  /\ cli = CliIdle

\* promise.set_value(rc), seen by the caller that waits on the command
Fulfil(cmd, rc) ==
  IF cli.pc = "wait" /\ cli.arg = cmd.ticket
  THEN [cli EXCEPT !.promise = [state |-> "set", value |-> rc]]
  ELSE cli

\* The actor runs PacketHandler::operator() of a posted packet.
RunPacket(cmd, errs, assert_on) ==
  /\ cmd.kind = "PacketHandler"
  /\ PacketHandler(cmd.arg, errs)
  /\ actor' = IF Asserts(cmd.arg) /\ assert_on
              THEN [pc |-> "aborted", cmd |-> cmd, rpcs |-> <<>>]
              ELSE ActorIdle
  /\ op' = Op("PacketHandler", cmd.arg, 0)
  /\ UNCHANGED cli

\* The actor runs ConfigUpdateHandler::operator(): update_config_ up to the
\* answer to update_start.
RunConfigStart(cmd, garbage, code, crash) ==
  /\ cmd.kind = "ConfigUpdateHandler"
  /\ update_config_start(cmd.arg, garbage, code, crash)
  /\ actor' = IF crash THEN [pc |-> "aborted", cmd |-> cmd, rpcs |-> <<>>]
              ELSE IF update_config_rc(code) # 0 THEN ActorIdle
              ELSE [pc |-> "repush", cmd |-> cmd, rpcs |-> dev']
  /\ cli' = IF ~crash /\ update_config_rc(code) # 0
            THEN Fulfil(cmd, update_config_rc(code)) ELSE cli
  /\ op' = Op("update_start", cmd.arg, update_config_rc(code))

RunConfigRepush ==
  /\ actor.pc = "repush"
  /\ \E errs \in ErrCounts : update_config_repush(actor.rpcs, errs)
  /\ actor' = [actor EXCEPT !.pc = "update_end", !.rpcs = dev']
  /\ op' = Op("repush", actor.cmd.arg, 0)
  /\ UNCHANGED <<events, nposted, cli>>

RunConfigEnd ==
  /\ actor.pc = "update_end"
  /\ \E code \in Codes :
       /\ update_config_end(actor.rpcs, code)
       /\ cli' = Fulfil(actor.cmd, update_config_rc(code))
       /\ op' = Op("update_end", actor.cmd.arg, update_config_rc(code))
  /\ actor' = ActorIdle
  /\ UNCHANGED <<events, nposted>>

----------------------------------------------------------------------------
(* The API calls that run on the caller's own thread *)

\* add_route that gives up on the controller side when the device write fails
add_route_device_first(prefix, pLen, nhop, port, errs) ==
  LET r2 == add_route_(next_hops, prefix, pLen, nhop, port, "DEVICE_STATE", errs)
      r1 == add_route_(next_hops, prefix, pLen, nhop, port, "CONTROLLER_STATE", errs)
  IN [rc |-> r2.rc, next_hops |-> IF r2.rc # 0 THEN next_hops ELSE r1.next_hops,
      rpcs |-> r2.rpcs]

add_route(prefix, pLen, nhop, port, errs) ==
  LET r1 == add_route_(next_hops, prefix, pLen, nhop, port, "CONTROLLER_STATE", errs)
      rc1 == BitOr(0, r1.rc)
      r2 == add_route_(r1.next_hops, prefix, pLen, nhop, port, "DEVICE_STATE", errs)
  IN [rc |-> BitOr(rc1, r2.rc), next_hops |-> r2.next_hops,
      rpcs |-> r1.rpcs \o r2.rpcs]

add_iface(port_num, ip_addr, mac_addr, errs) ==
  LET r1 == add_iface_(ifaces, port_num, ip_addr, mac_addr, "CONTROLLER_STATE", errs)
      r2 == add_iface_(r1.ifaces, port_num, ip_addr, mac_addr, "DEVICE_STATE", errs)
  IN [ifaces |-> r2.ifaces, rpcs |-> r1.rpcs \o r2.rpcs]

static_config(errs) ==
  LET r1 == static_config_(ifaces, next_hops, "CONTROLLER_STATE", errs)
      rc1 == BitOr(0, r1.rc)
      r2 == static_config_(r1.ifaces, r1.next_hops, "DEVICE_STATE", errs)
  IN [rc |-> BitOr(rc1, r2.rc), ifaces |-> r2.ifaces, next_hops |-> r2.next_hops,
      rpcs |-> r1.rpcs \o r2.rpcs]

----------------------------------------------------------------------------
(* The operations one at a time, each from start to end (a reload in its   *)
(* three steps)                                                            *)

Quiet == actor.pc = "idle" /\ cli.pc = "idle"

QueueRoom(pkt) ==
  Dispatch(pkt) = "handle_ip" => Len(QueueOf(pkt.ip_dst_addr)) < MaxQueue

HandlePacketOf(pkts) ==
  /\ Quiet
  /\ \E pkt \in pkts :
     \E errs \in (IF Dispatch(pkt) = "handle_arp" THEN ErrCounts ELSE {0}),
        assert_on \in (IF Asserts(pkt) THEN BOOLEAN ELSE {FALSE}) :
       /\ QueueRoom(pkt)
       /\ RunPacket(Cmd("PacketHandler", pkt, 0), errs, assert_on)
  /\ UNCHANGED <<events, nposted>>

Reload ==
  /\ Quiet
  /\ \E valid \in BOOLEAN, garbage \in Garbage, code \in Codes, crash \in BOOLEAN :
       /\ valid => NewHandle <= 1 + MaxReloads /\ ~crash
       /\ RunConfigStart(Cmd("ConfigUpdateHandler", Config(valid), 0),
                         garbage, code, crash)
  /\ UNCHANGED <<events, nposted>>

Routes == {<<StaticNhop1, 1>>, <<StaticNhop1, 2>>, <<StaticNhop2, 2>>}

AddRoute ==
  /\ Quiet
  /\ \E r \in Routes, errs \in ErrCounts :
       LET res == add_route(r[1], 32, r[1], r[2], errs)
       IN /\ next_hops' = res.next_hops
          /\ dev' = res.rpcs
          /\ op' = Op("add_route",
                      [prefix |-> r[1], pLen |-> 32, nhop |-> r[1], port |-> r[2]],
                      res.rc)
  /\ out' = <<>>
  /\ UNCHANGED <<ifaces, packet_queues, p4info, destroyed, actor, events, nposted, cli>>

AddIface ==
  /\ Quiet
  /\ Len(ifaces) < MaxIfaces
  /\ \E iface \in IfaceChoices, errs \in ErrCounts :
       LET res == add_iface(iface.port_num, iface.ip_addr, iface.mac_addr, errs)
       IN /\ ifaces' = res.ifaces
          /\ dev' = res.rpcs
          /\ op' = Op("add_iface", iface, 0)
  /\ out' = <<>>
  /\ UNCHANGED <<next_hops, packet_queues, p4info, destroyed, actor, events, nposted, cli>>

StaticConfig ==
  /\ Quiet
  /\ Len(ifaces) + 2 <= MaxIfaces
  /\ \E errs \in ErrCounts :
       LET res == static_config(errs)
       IN /\ ifaces' = res.ifaces
          /\ next_hops' = res.next_hops
          /\ dev' = res.rpcs
          /\ op' = Op("static_config", 0, res.rc)
  /\ out' = <<>>
  /\ UNCHANGED <<packet_queues, p4info, destroyed, actor, events, nposted, cli>>

SetDefaultEntries ==
  /\ Quiet
  /\ \E errs \in ErrCounts :
       LET res == set_default_entries(errs)
       IN /\ dev' = res.rpcs
          /\ op' = Op("set_default_entries", 0, res.rc)
  /\ out' = <<>>
  /\ UNCHANGED <<ifaces, next_hops, packet_queues, p4info, destroyed, actor,
                 events, nposted, cli>>

----------------------------------------------------------------------------
(* Spec: the ARP engine and the installation calls, on every packet        *)

PayloadIds == {1, 2}

IpPackets ==
  {IpPacket(StaticNhop1, id) : id \in PayloadIds} \cup {IpPacket(StaticNhop2, 1)}

Packets ==
  IpPackets
  \cup {ArpPacket(1, HostMacA, StaticNhop1, t) : t \in {StaticIp1, StaticIp2, StaticNhop2}}
  \cup {ArpPacket(2, m, d, StaticIp1) : m \in HostMacs, d \in Nhops}
  \cup {ArpPacket(3, HostMacA, StaticNhop1, StaticIp1)}
  \cup {[IpPacket(StaticNhop1, 1) EXCEPT !.size = n] :
          n \in {CpuHdrSize - 1, CpuHdrSize + EthHdrSize - 1,
                 CpuHdrSize + EthHdrSize + Ipv4HdrSize - 1}}
  \cup {[ArpPacket(2, HostMacA, StaticNhop1, StaticIp1) EXCEPT
            !.size = CpuHdrSize + EthHdrSize + ArpHdrSize - 1]}
  \cup {[IpPacket(StaticNhop1, 1) EXCEPT !.zeros = 1],
        [IpPacket(StaticNhop1, 1) EXCEPT !.reason = DATA_PKT]}

HandlePacket == HandlePacketOf(Packets)

Next ==
  \/ HandlePacket
  \/ AddRoute
  \/ AddIface
  \/ StaticConfig
  \/ SetDefaultEntries

Spec == Init /\ [][Next]_vars

----------------------------------------------------------------------------
(* SpecReload: the pipeline reload among the installation calls            *)

HandleIpPacket == HandlePacketOf({IpPacket(StaticNhop1, 1)})

NextReload ==
  \/ Reload
  \/ RunConfigRepush
  \/ RunConfigEnd
  \/ AddRoute
  \/ AddIface
  \/ StaticConfig
  \/ HandleIpPacket

SpecReload == Init /\ [][NextReload]_vars

----------------------------------------------------------------------------
(* SpecActor: the threads.  The receive thread posts a PacketHandler per   *)
(* packet-in, update_config posts a ConfigUpdateHandler and waits for its  *)
(* promise, the io_service thread runs the posted handlers, and add_route  *)
(* runs on the thread of its caller.                                       *)

\* post_event: io_service.post(handler)
post_event(cmd) ==
  /\ events' = Append(events, cmd)
  /\ nposted' = nposted + 1

Alive == actor.pc # "aborted"

ActorPackets == {IpPacket(StaticNhop1, 1), ArpPacket(2, HostMacA, StaticNhop1, StaticIp1)}

\* The receive thread handling the packet itself instead of posting it
recv_packet_in_direct ==
  /\ Alive
  /\ nposted < MaxPosts
  /\ \E pkt \in ActorPackets :
       /\ PacketHandler(pkt, 0)
       /\ op' = Op("PacketHandler", pkt, 0)
  /\ nposted' = nposted + 1
  /\ UNCHANGED <<actor, events, cli>>

\* PacketIOSyncClient::recv_packet_in: one PacketHandler posted per packet read
recv_packet_in ==
  /\ Alive
  /\ nposted < MaxPosts
  /\ \E pkt \in ActorPackets :
       /\ post_event(Cmd("PacketHandler", pkt, nposted + 1))
       /\ op' = Op("recv_packet_in", pkt, 0)
  /\ dev' = <<>>
  /\ out' = <<>>
  /\ UNCHANGED <<ifaces, next_hops, packet_queues, p4info, destroyed, actor, cli>>

\* io_service.run() on its one thread: take the handler posted first
io_service_run ==
  /\ actor.pc = "idle"
  /\ events # <<>>
  /\ actor' = [pc |-> "run", cmd |-> Head(events), rpcs |-> <<>>]
  /\ events' = Tail(events)
  /\ op' = Op("dequeue", 0, 0)
  /\ dev' = <<>>
  /\ out' = <<>>
  /\ UNCHANGED <<ifaces, next_hops, packet_queues, p4info, destroyed, nposted, cli>>

ActorRunPacket ==
  /\ actor.pc = "run"
  /\ \E errs \in ErrCounts, assert_on \in BOOLEAN : RunPacket(actor.cmd, errs, assert_on)
  /\ UNCHANGED <<events, nposted>>

ActorRunConfig ==
  /\ actor.pc = "run"
  /\ \E garbage \in Garbage, code \in Codes, crash \in BOOLEAN :
       /\ actor.cmd.kind = "ConfigUpdateHandler"
       /\ actor.cmd.arg.valid => ~crash
       /\ RunConfigStart(actor.cmd, garbage, code, crash)
  /\ UNCHANGED <<events, nposted>>

\* update_config: post the handler, then future.wait()
update_config_post ==
  /\ Alive
  /\ cli.pc = "idle"
  /\ nposted < MaxPosts
  /\ \E valid \in BOOLEAN :
       /\ post_event(Cmd("ConfigUpdateHandler", Config(valid), nposted + 1))
       /\ op' = Op("update_config_post", Config(valid), 0)
  /\ cli' = [pc |-> "wait", arg |-> nposted + 1,
             promise |-> [state |-> "pending", value |-> 0]]
  /\ dev' = <<>>
  /\ out' = <<>>
  /\ UNCHANGED <<ifaces, next_hops, packet_queues, p4info, destroyed, actor>>

\* update_config: future.get() once the promise is set
update_config_return ==
  /\ Alive
  /\ cli.pc = "wait"
  /\ cli.promise.state = "set"
  /\ op' = Op("update_config", cli.arg, cli.promise.value)
  /\ cli' = CliIdle
  /\ dev' = <<>>
  /\ out' = <<>>
  /\ UNCHANGED <<ifaces, next_hops, packet_queues, p4info, destroyed, actor,
                 events, nposted>>

\* add_route on the caller's thread, line 337: the controller-side update
AddRouteController ==
  /\ Alive
  /\ cli.pc = "idle"
  /\ \E r \in {<<StaticNhop1, 1>>} :
       /\ next_hops' = add_route_(next_hops, r[1], 32, r[1], r[2],
                                  "CONTROLLER_STATE", 0).next_hops
       /\ cli' = [pc |-> "add_route_device",
                  arg |-> [prefix |-> r[1], pLen |-> 32, nhop |-> r[1], port |-> r[2]],
                  promise |-> NoPromise]
       /\ op' = Op("add_route_controller", cli'.arg, 0)
  /\ dev' = <<>>
  /\ out' = <<>>
  /\ UNCHANGED <<ifaces, packet_queues, p4info, destroyed, actor, events, nposted>>

\* add_route on the caller's thread, line 338: the device-side write
AddRouteDevice ==
  /\ Alive
  /\ cli.pc = "add_route_device"
  /\ \E errs \in ErrCounts :
       LET r == add_route_(next_hops, cli.arg.prefix, cli.arg.pLen, cli.arg.nhop,
                           cli.arg.port, "DEVICE_STATE", errs)
       IN /\ dev' = r.rpcs
          /\ op' = Op("add_route_device", cli.arg, BitOr(0, r.rc))
  /\ cli' = CliIdle
  /\ out' = <<>>
  /\ UNCHANGED <<ifaces, next_hops, packet_queues, p4info, destroyed, actor,
                 events, nposted>>

NextActor ==
  \/ recv_packet_in
  \/ io_service_run
  \/ ActorRunPacket
  \/ ActorRunConfig
  \/ RunConfigRepush
  \/ RunConfigEnd
  \/ update_config_post
  \/ update_config_return
  \/ AddRouteController
  \/ AddRouteDevice

SpecActor == Init /\ [][NextActor]_vars

----------------------------------------------------------------------------
(* SpecSync: the threads of SpecActor with the counter query, and with the *)
(* fairness of threads that keep running and of RPCs that return.          *)

\* A uint64 as four 16-bit words, most significant first.
Uint64(n) == <<0, 0, 0, n>>

\* std::numeric_limits<uint64_t>::max()
Uint64Max == <<65535, 65535, 65535, 65535>>

CounterData(packets, bytes) == [packets |-> packets, bytes |-> bytes]

\* The counter the pipeline description declares, and a name it does not have.
KnownCounter == "known_counter"
QueryNames == {KnownCounter, "unknown_counter"}
QueryIndexes == {0}

PI_INVALID_ID == <<0, "PI_INVALID_ID">>

\* Whether p4info is a description that exists (after a reload whose parse
\* failed it may be null or released, and reading it is undefined).
LiveDescription == p4info # 0 /\ p4info \notin destroyed

\* pi_p4info_counter_id_from_name
counter_id_from_name(info, counter_name) ==
  IF counter_name = KnownCounter THEN Id(info, counter_name) ELSE PI_INVALID_ID

CounterEntry(counter_id, index, data) ==
  [counter_id |-> counter_id, index |-> index, data |-> data]

CounterDatas ==
  {CounterData(Uint64(7), Uint64(700)), CounterData(Uint64Max, Uint64(700))}

\* The responses of the device to CounterRead: no entry, one entry (of the
\* index asked for or of another), or an entry of another index before one
\* of the index asked for.
Responses ==
  {<<>>}
  \cup {<<CounterEntry(Id(p4info, KnownCounter), i, d)>> :
          i \in QueryIndexes \cup {1}, d \in CounterDatas}
  \cup {<<CounterEntry(Id(p4info, KnownCounter), 1, CounterData(Uint64(1), Uint64(1))),
          CounterEntry(Id(p4info, KnownCounter), i, d)>> :
          i \in QueryIndexes, d \in CounterDatas}

CounterRead(counter_id, rep) ==
  [rpc |-> "CounterRead", counter_ids |-> <<counter_id>>, entries |-> rep]

\* query_counter_: counter_id is what the lookup of the name gave, rep the
\* device's response; counter_data starts as the handler's empty CounterData.
query_counter_(counter_id, index, rep) ==
  LET i == FirstIndex({k \in 1 .. Len(rep) :
                         rep[k].counter_id = counter_id /\ rep[k].index = index})
  IN IF counter_id = PI_INVALID_ID
     THEN [rc |-> 1, counter_data |-> CounterData(Uint64(0), Uint64(0)), rpcs |-> <<>>]
     ELSE [rc |-> IF i # 0 THEN 0 ELSE 1,
           counter_data |-> IF i # 0 THEN rep[i].data
                            ELSE CounterData(Uint64(0), Uint64(0)),
           rpcs |-> <<CounterRead(counter_id, rep)>>]

\* CounterQueryHandler::operator(): the data the promise is set to
CounterQueryHandler(counter_id, index, rep) ==
  LET r == query_counter_(counter_id, index, rep)
  IN IF r.rc # 0 THEN [r.counter_data EXCEPT !.packets = Uint64Max]
     ELSE r.counter_data

\* query_counter after future.get(): what it returns and gives back
query_counter(counter_data) ==
  IF counter_data.packets = Uint64Max
  THEN [rc |-> 1, packets |-> Uint64(0), bytes |-> Uint64(0), written |-> FALSE]
  ELSE [rc |-> 0, packets |-> counter_data.packets, bytes |-> counter_data.bytes,
        written |-> TRUE]

\* query_counter: post the handler, then future.wait()
query_counter_post ==
  /\ Alive
  /\ cli.pc = "idle"
  /\ nposted < MaxPosts
  /\ \E counter_name \in QueryNames, index \in QueryIndexes :
       /\ post_event(Cmd("CounterQueryHandler",
                         [counter_name |-> counter_name, index |-> index], nposted + 1))
       /\ op' = Op("query_counter_post",
                   [counter_name |-> counter_name, index |-> index], 0)
  /\ cli' = [pc |-> "wait_counter", arg |-> nposted + 1,
             promise |-> [state |-> "pending",
                          value |-> CounterData(Uint64(0), Uint64(0))]]
  /\ dev' = <<>>
  /\ out' = <<>>
  /\ UNCHANGED <<ifaces, next_hops, packet_queues, p4info, destroyed, actor>>

\* The actor runs CounterQueryHandler::operator().  On a description that
\* does not exist the lookup may give any id or end the process.
ActorRunCounter ==
  /\ actor.pc = "run"
  /\ actor.cmd.kind = "CounterQueryHandler"
  /\ \E rep \in Responses, crash \in BOOLEAN,
        counter_id \in {counter_id_from_name(p4info, actor.cmd.arg.counter_name)}
                       \cup (IF LiveDescription THEN {}
                             ELSE {PI_INVALID_ID, Id(p4info, KnownCounter)}) :
       /\ crash => ~LiveDescription
       /\ rep # <<>> => counter_id # PI_INVALID_ID
       /\ dev' = IF crash THEN <<>>
                 ELSE query_counter_(counter_id, actor.cmd.arg.index, rep).rpcs
       /\ cli' = IF ~crash /\ cli.pc = "wait_counter" /\ cli.arg = actor.cmd.ticket
                 THEN [cli EXCEPT !.promise =
                         [state |-> "set",
                          value |-> CounterQueryHandler(counter_id,
                                                        actor.cmd.arg.index, rep)]]
                 ELSE cli
       /\ actor' = IF crash THEN [pc |-> "aborted", cmd |-> actor.cmd, rpcs |-> <<>>]
                   ELSE ActorIdle
       /\ op' = Op("CounterQueryHandler", actor.cmd.arg,
                   query_counter_(counter_id, actor.cmd.arg.index, rep).rc)
  /\ out' = <<>>
  /\ UNCHANGED <<ifaces, next_hops, packet_queues, p4info, destroyed, events, nposted>>

\* query_counter: future.get() once the promise is set
query_counter_return ==
  /\ Alive
  /\ cli.pc = "wait_counter"
  /\ cli.promise.state = "set"
  /\ op' = Op("query_counter", query_counter(cli.promise.value),
              query_counter(cli.promise.value).rc)
  /\ cli' = CliIdle
  /\ dev' = <<>>
  /\ out' = <<>>
  /\ UNCHANGED <<ifaces, next_hops, packet_queues, p4info, destroyed, actor,
                 events, nposted>>

NextSync ==
  \/ recv_packet_in
  \/ io_service_run
  \/ ActorRunPacket
  \/ ActorRunConfig
  \/ ActorRunCounter
  \/ RunConfigRepush
  \/ RunConfigEnd
  \/ update_config_post
  \/ update_config_return
  \/ query_counter_post
  \/ query_counter_return

SpecSync ==
  /\ Init
  /\ [][NextSync]_vars
  /\ WF_vars(io_service_run)
  /\ WF_vars(ActorRunPacket)
  /\ WF_vars(ActorRunConfig)
  /\ WF_vars(ActorRunCounter)
  /\ WF_vars(RunConfigRepush)
  /\ WF_vars(RunConfigEnd)
  /\ WF_vars(update_config_return)
  /\ WF_vars(query_counter_return)

----------------------------------------------------------------------------
(* The claims *)

\* A punted packet that carries every header its reason asks for.
IsNoArpEntry(pkt) ==
  /\ pkt.zeros = 0
  /\ pkt.reason = NO_ARP_ENTRY
  /\ pkt.size >= CpuHdrSize + EthHdrSize + Ipv4HdrSize

IsArp(pkt, opcode) ==
  /\ pkt.zeros = 0
  /\ pkt.reason = ARP_MSG
  /\ pkt.size >= CpuHdrSize + EthHdrSize + ArpHdrSize
  /\ pkt.arp.opcode = opcode

IsPrefix(s, t) == Len(s) <= Len(t) /\ \A i \in 1 .. Len(s) : s[i] = t[i]

\* C1: handling a punted NO_ARP_ENTRY packet whose destination has no
\* next-hop entry sends no packet-out, creates no pending queue for the
\* destination, issues no device write and leaves the router state unchanged.
C1_NoRouteDrops ==
  [][(/\ op'.name = "PacketHandler"
      /\ IsNoArpEntry(op'.arg)
      /\ op'.arg.ip_dst_addr \notin DOMAIN next_hops)
     => /\ out' = <<>>
        /\ dev' = <<>>
        /\ op'.arg.ip_dst_addr \notin DOMAIN packet_queues'
        /\ UNCHANGED <<ifaces, next_hops, packet_queues, p4info, destroyed>>]_vars

\* A NO_ARP_ENTRY packet for a destination without route was handled while
\* another destination has a route and a pending queue.
C1_Witness ==
  /\ op.name = "PacketHandler"
  /\ IsNoArpEntry(op.arg)
  /\ op.arg.ip_dst_addr \notin DOMAIN next_hops
  /\ DOMAIN packet_queues # {}
  /\ ifaces # <<>>

\* C2: a punted NO_ARP_ENTRY packet for a destination with a next-hop entry
\* is appended at the tail of that destination's queue; a queue keeps its
\* packets in order until an ARP reply from its destination is handled; and
\* a packet-out that is not an ARP message is sent only while such a reply
\* is handled.
C2_FifoUntilReply ==
  [][/\ (/\ op'.name = "PacketHandler"
         /\ IsNoArpEntry(op'.arg)
         /\ op'.arg.ip_dst_addr \in DOMAIN next_hops)
        => /\ op'.arg.ip_dst_addr \in DOMAIN packet_queues'
           /\ packet_queues'[op'.arg.ip_dst_addr] =
                Append(IF op'.arg.ip_dst_addr \in DOMAIN packet_queues
                       THEN packet_queues[op'.arg.ip_dst_addr] ELSE <<>>, op'.arg)
           /\ \A i \in 1 .. Len(out') : out'[i].ethertype = EtherTypeArp
     /\ \A d \in DOMAIN packet_queues :
          \/ /\ d \in DOMAIN packet_queues'
             /\ IsPrefix(packet_queues[d], packet_queues'[d])
          \/ /\ op'.name = "PacketHandler"
             /\ IsArp(op'.arg, 2)
             /\ op'.arg.arp.proto_src_addr = d
     /\ \A i \in 1 .. Len(out') :
          out'[i].ethertype # EtherTypeArp
          => /\ op'.name = "PacketHandler"
             /\ IsArp(op'.arg, 2)
             /\ op'.arg.arp.proto_src_addr = out'[i].ip_dst_addr]_vars

\* Two different packets for one destination are queued in arrival order,
\* the second just handled, and an ARP request went out for it.
C2_Witness ==
  /\ op.name = "PacketHandler"
  /\ IsNoArpEntry(op.arg)
  /\ op.arg.ip_dst_addr \in DOMAIN packet_queues
  /\ Len(packet_queues[op.arg.ip_dst_addr]) = 2
  /\ packet_queues[op.arg.ip_dst_addr][2] = op.arg
  /\ packet_queues[op.arg.ip_dst_addr][1] # op.arg
  /\ Len(out) = 1

\* C3: when an ARP reply with sender IP D and sender MAC M is handled while
\* D has a pending queue, one ARP entry D -> M is written to the device,
\* every queued packet is sent exactly once, in queue order, with destination
\* MAC M, reason DATA_PKT and port next_hops[D], and D's queue is gone.
C3_ReplyDrainsQueue ==
  [][(/\ op'.name = "PacketHandler"
      /\ IsArp(op'.arg, 2)
      /\ op'.arg.arp.proto_src_addr \in DOMAIN packet_queues)
     => LET D == op'.arg.arp.proto_src_addr
            M == op'.arg.arp.hw_src_addr
            q == packet_queues[D]
        IN /\ Len(dev') = 1
           /\ dev'[1].rpc = "TableWrite"
           /\ dev'[1].entry.table_id = Id(p4info, "forward")
           /\ dev'[1].entry.match.kind = "exact"
           /\ dev'[1].entry.match.value = D
           /\ dev'[1].entry.action_id = Id(p4info, "set_dmac")
           /\ dev'[1].entry.params = <<[param |-> "dmac", value |-> M]>>
           /\ D \in DOMAIN next_hops
           /\ Len(out') = Len(q)
           /\ \A i \in 1 .. Len(q) :
                out'[i] = [q[i] EXCEPT !.zeros = 0, !.reason = DATA_PKT,
                                       !.port = next_hops[D], !.dst_addr = M]
           /\ D \notin DOMAIN packet_queues'
           /\ \A d \in DOMAIN packet_queues \ {D} :
                d \in DOMAIN packet_queues' /\ packet_queues'[d] = packet_queues[d]]_vars

\* An ARP reply has drained a queue of two different packets.
C3_Witness ==
  /\ op.name = "PacketHandler"
  /\ IsArp(op.arg, 2)
  /\ Len(out) = 2
  /\ out[1].payload # out[2].payload
  /\ out[1].reason = DATA_PKT
  /\ op.arg.arp.proto_src_addr \notin DOMAIN packet_queues

\* C4: handling an ARP request whose target IP is the IP of a configured
\* interface sends exactly one packet-out, the ARP reply of an interface
\* with that IP: out its port, from its MAC and IP, to the requester's MAC
\* and IP.  If no interface has the target IP nothing is sent.  Either way
\* no state changes.
C4_ArpRequestReply ==
  [][(op'.name = "PacketHandler" /\ IsArp(op'.arg, 1))
     => LET a == op'.arg.arp
            S == {i \in 1 .. Len(ifaces) : ifaces[i].ip_addr = a.proto_dst_addr}
        IN /\ UNCHANGED <<ifaces, next_hops, packet_queues, p4info, destroyed>>
           /\ dev' = <<>>
           /\ IF S = {} THEN out' = <<>>
              ELSE /\ Len(out') = 1
                   /\ \E i \in S :
                        /\ out'[1].zeros = 0
                        /\ out'[1].reason = ARP_MSG
                        /\ out'[1].port = ifaces[i].port_num
                        /\ out'[1].dst_addr = a.hw_src_addr
                        /\ out'[1].src_addr = ifaces[i].mac_addr
                        /\ out'[1].ethertype = EtherTypeArp
                        /\ out'[1].arp.opcode = 2
                        /\ out'[1].arp.hw_src_addr = ifaces[i].mac_addr
                        /\ out'[1].arp.proto_src_addr = ifaces[i].ip_addr
                        /\ out'[1].arp.hw_dst_addr = a.hw_src_addr
                        /\ out'[1].arp.proto_dst_addr = a.proto_src_addr]_vars

\* An ARP request for an IP that two interfaces share was answered once.
C4_Witness ==
  /\ op.name = "PacketHandler"
  /\ IsArp(op.arg, 1)
  /\ Cardinality({i \in 1 .. Len(ifaces) :
                    ifaces[i].ip_addr = op.arg.arp.proto_dst_addr}) = 2
  /\ Len(out) = 1
  /\ out[1].arp.opcode = 2

\* C5: after add_route the next-hop table maps nhop to port whatever the
\* device answered; the device write of the route was issued; and add_route
\* returns non-zero exactly when the device reported a non-zero error count.
C5_AddRouteBothSides ==
  [][op'.name = "add_route"
     => /\ op'.arg.nhop \in DOMAIN next_hops'
        /\ next_hops'[op'.arg.nhop] = op'.arg.port
        /\ Len(dev') = 1
        /\ dev'[1].rpc = "TableWrite"
        /\ dev'[1].entry.table_id = Id(p4info, "ipv4_lpm")
        /\ dev'[1].entry.params = <<[param |-> "nhop_ipv4", value |-> op'.arg.nhop],
                                    [param |-> "port", value |-> op'.arg.port]>>
        /\ (op'.rc # 0) <=> (dev'[1].errors # 0)]_vars

\* add_route returned non-zero and the next-hop entry it was to add is there.
C5_Witness ==
  /\ op.name = "add_route"
  /\ op.rc # 0
  /\ dev[1].errors # 0
  /\ op.arg.nhop \in DOMAIN next_hops
  /\ next_hops[op.arg.nhop] = op.arg.port

\* C6: when the device answers update_start with a code that is not OK, the
\* reload has sent nothing but update_start (no entry write, no update_end),
\* is over, reports failure, and has left interfaces, next hops and queues
\* as they were; the description of a configuration that parsed is already
\* the active one and the previous one is released.
C6_StartFailureStops ==
  [][(/\ op'.name = "update_start"
      /\ dev' # <<>>
      /\ dev'[1].code # OK)
     => /\ Len(dev') = 1
        /\ dev'[1].rpc = "DeviceUpdateStart"
        /\ actor'.pc = "idle"
        /\ op'.rc # 0
        /\ UNCHANGED <<ifaces, next_hops, packet_queues>>
        /\ op'.arg.valid => /\ p4info' # p4info
                            /\ dev'[1].p4info = p4info'
                            /\ p4info \in destroyed'
                            /\ p4info' \notin destroyed']_vars

\* A reload of a configuration that parses has failed at update_start, with
\* interfaces, next hops and a pending queue in place.
C6_Witness ==
  /\ op.name = "update_start"
  /\ op.arg.valid
  /\ op.rc = 1
  /\ dev # <<>>
  /\ dev[1].code # OK
  /\ actor.pc = "idle"
  /\ ifaces # <<>>
  /\ DOMAIN next_hops # {}
  /\ DOMAIN packet_queues # {}

IsWrite(r, table) ==
  r.rpc = "TableWrite" /\ r.entry.table_id = Id(p4info, table)

\* C7: after a reload that fully succeeds, the device has been sent the
\* default entry, a route entry for every next hop of the next-hop table and
\* a source-MAC entry for every interface of the interface list.
C7_ReloadReplaysState ==
  (op.name = "update_end" /\ op.arg.valid /\ op.rc = 0)
  => /\ \E i \in 1 .. Len(dev) :
          IsWrite(dev[i], "forward") /\ dev[i].entry.action_id = Id(p4info, "_drop")
     /\ \A n \in DOMAIN next_hops :
          \E i \in 1 .. Len(dev) :
            /\ IsWrite(dev[i], "ipv4_lpm")
            /\ dev[i].entry.match.value = n
            /\ dev[i].entry.params = <<[param |-> "nhop_ipv4", value |-> n],
                                       [param |-> "port", value |-> next_hops[n]]>>
     /\ \A k \in 1 .. Len(ifaces) :
          \E i \in 1 .. Len(dev) :
            /\ IsWrite(dev[i], "send_frame")
            /\ dev[i].entry.match.value = ifaces[k].port_num
            /\ dev[i].entry.params = <<[param |-> "smac", value |-> ifaces[k].mac_addr]>>

\* The place of an RPC in a reload: update_start, the default entry, the
\* route and interface entries, update_end.
Rank(r) ==
  IF r.rpc = "DeviceUpdateStart" THEN 1
  ELSE IF r.rpc = "DeviceUpdateEnd" THEN 4
  ELSE IF r.entry.action_id[2] = "_drop" THEN 2
  ELSE IF r.entry.action_id[2] \in {"set_nhop", "rewrite_mac"} THEN 3
  ELSE 0

\* C8: a reload returns success exactly when the device answered OK to
\* update_start and to update_end, whatever the entry writes between them
\* reported; and its RPCs go out in the order update_start, default entry,
\* route and interface entries, update_end.
C8_ReloadResult ==
  [][/\ (op'.name \in {"update_start", "update_end"} /\ actor'.pc = "idle")
        => /\ dev'[1].rpc = "DeviceUpdateStart"
           /\ (op'.rc = 0) <=> /\ dev'[1].code = OK
                               /\ dev'[Len(dev')].rpc = "DeviceUpdateEnd"
                               /\ dev'[Len(dev')].code = OK
           /\ dev'[1].code = OK
              => /\ Len(dev') >= 3
                 /\ Rank(dev'[2]) = 2
                 /\ Rank(dev'[Len(dev')]) = 4
     /\ op'.name \in {"update_start", "repush", "update_end"}
        => /\ \A i \in 1 .. Len(dev') : Rank(dev'[i]) # 0
           /\ \A i \in 1 .. Len(dev') : (Rank(dev'[i]) \in {1, 2, 4})
                => \A j \in 1 .. Len(dev') : Rank(dev'[j]) = Rank(dev'[i]) => j = i
           /\ \A i, j \in 1 .. Len(dev') : i < j => Rank(dev'[i]) <= Rank(dev'[j])
           /\ op'.name # "update_start" => IsPrefix(dev, dev')]_vars

\* A reload has succeeded although its entry writes reported errors, and it
\* wrote route and interface entries.
C8_Witness ==
  /\ op.name = "update_end"
  /\ op.rc = 0
  /\ Len(dev) >= 6
  /\ \E i \in 1 .. Len(dev) : dev[i].rpc = "TableWrite" /\ dev[i].errors # 0

\* C9: a step of add_route on its caller's thread (the controller-side
\* update or the device write) is never taken while the actor is inside a
\* command.
C9_CallerNeverOverlapsActor ==
  [][op'.name \in {"add_route_controller", "add_route_device"}
     => actor.pc = "idle"]_vars

\* C10: the posted commands are run in the order they were posted, one at a
\* time, each to its end before the next is taken; a PacketHandler runs only
\* as the command the actor has taken, and none runs, and no queue changes,
\* between the first and the last step of a reload.
C10_ActorSerializes ==
  [][/\ \A i \in 1 .. Len(events') :
          events'[i].ticket = nposted' - Len(events') + i
     /\ actor'.pc \in {"run", "repush", "update_end"}
        => actor'.cmd.ticket = nposted' - Len(events')
     /\ op'.name = "dequeue" => actor.pc = "idle" /\ actor'.cmd = Head(events)
     /\ op'.name \in {"PacketHandler", "update_start"}
        => /\ actor.pc = "run"
           /\ actor.cmd.kind = (IF op'.name = "PacketHandler" THEN "PacketHandler"
                                ELSE "ConfigUpdateHandler")
           /\ op'.arg = actor.cmd.arg
     /\ actor.pc \in {"repush", "update_end"}
        => /\ op'.name # "PacketHandler"
           /\ UNCHANGED packet_queues
           /\ actor'.pc = "idle" \/ actor'.cmd = actor.cmd]_vars

\* A reload is between its first and its last step while a packet posted
\* after it waits in the queue, behind a pending queue that is not empty.
C10_Witness ==
  /\ actor.pc = "update_end"
  /\ events # <<>>
  /\ events[1].kind = "PacketHandler"
  /\ DOMAIN packet_queues # {}

\* C11: a caller that waits in update_config or query_counter eventually
\* returns, given that the io_service thread keeps running the posted
\* handlers and the device answers every RPC.
C11_SyncCallerReturns ==
  (cli.pc \in {"wait", "wait_counter"}) ~> (cli.pc = "idle")

\* C12: set_default_entries returns a non-zero count exactly when the device
\* reported an error for the write of the default entry.
C12_DefaultEntryErrorReported ==
  [][op'.name = "set_default_entries"
     => /\ Len(dev') = 1
        /\ (op'.rc # 0) <=> (dev'[1].errors # 0)]_vars

\* The headers a punted packet must carry for its reason.
RequiredSize(pkt) ==
  CpuHdrSize + EthHdrSize
  + (IF pkt.reason = NO_ARP_ENTRY THEN Ipv4HdrSize
     ELSE IF pkt.reason = ARP_MSG THEN ArpHdrSize ELSE 0)

Malformed(pkt) ==
  \/ pkt.size < RequiredSize(pkt)
  \/ pkt.zeros # 0
  \/ pkt.reason \notin {NO_ARP_ENTRY, ARP_MSG}

\* C13: handling a punted packet that is too short for the headers of its
\* reason, or whose reserved bytes are not zero, or whose reason is neither
\* NO_ARP_ENTRY nor ARP_MSG, changes no router state, writes nothing to the
\* device and sends no packet-out.
C13_MalformedDiscarded ==
  [][(op'.name = "PacketHandler" /\ Malformed(op'.arg))
     => /\ UNCHANGED <<ifaces, next_hops, packet_queues, p4info, destroyed>>
        /\ dev' = <<>>
        /\ out' = <<>>
        /\ actor' = ActorIdle]_vars

\* An ARP reply one byte short has been handled while packets were queued
\* for its sender and interfaces were configured.
C13_Witness ==
  /\ op.name = "PacketHandler"
  /\ Malformed(op.arg)
  /\ op.arg.reason = ARP_MSG
  /\ op.arg.zeros = 0
  /\ op.arg.arp.opcode = 2
  /\ op.arg.arp.proto_src_addr \in DOMAIN packet_queues
  /\ ifaces # <<>>

\* C14: whatever the punted packet, its handler ends normally and leaves the
\* actor ready for the next command.
C14_PacketPathNeverAborts ==
  op.name = "PacketHandler" => actor.pc = "idle"

\* C15: every destination of the pending-queue map has a next hop, a queue
\* that is not empty, and an interface on the port of its next hop (without
\* one no ARP request can have been sent for it).
C15_QueuesAreResolving ==
  \A d \in DOMAIN packet_queues :
    /\ d \in DOMAIN next_hops
    /\ packet_queues[d] # <<>>
    /\ \E i \in 1 .. Len(ifaces) : ifaces[i].port_num = next_hops[d]

\* C16: a NO_ARP_ENTRY packet for a destination that already has a pending
\* queue is appended to the queue and no ARP request is sent for it.
C16_ArpRequestOnFirstMissOnly ==
  [][(/\ op'.name = "PacketHandler"
      /\ IsNoArpEntry(op'.arg)
      /\ op'.arg.ip_dst_addr \in DOMAIN packet_queues)
     => /\ out' = <<>>
        /\ packet_queues' = Put(packet_queues, op'.arg.ip_dst_addr,
                                Append(packet_queues[op'.arg.ip_dst_addr], op'.arg))]_vars

\* C17: an ARP reply whose sender has no pending queue writes nothing to the
\* device.
C17_ArpEntryOnlyWhenResolving ==
  [][(/\ op'.name = "PacketHandler"
      /\ IsArp(op'.arg, 2)
      /\ op'.arg.arp.proto_src_addr \notin DOMAIN packet_queues)
     => dev' = <<>>]_vars

\* C18: a reload of a configuration that parses releases the description
\* that was active only if the device has answered update_start with OK, and
\* the active description is never a released one.
C18_ReleaseAfterAck ==
  [][(op'.name = "update_start" /\ op'.arg.valid)
     => /\ p4info' \notin destroyed'
        /\ p4info \in destroyed' => (dev' # <<>> /\ dev'[1].code = OK)]_vars

\* C19: a reload of a configuration that does not parse keeps the active
\* description, releases nothing and sends nothing to the device.
C19_ParseFailureAborts ==
  [][(op'.name = "update_start" /\ ~op'.arg.valid)
     => /\ p4info' = p4info
        /\ destroyed' = destroyed
        /\ dev' = <<>>
        /\ actor'.pc # "repush"]_vars

\* C20: add_iface(port, ip, mac) appends the interface to the interface list
\* and writes to the device the source-MAC entry of `port` with that `mac`.
C20_AddIfaceBothSides ==
  [][op'.name = "add_iface"
     => /\ ifaces' = Append(ifaces, op'.arg)
        /\ Len(dev') = 1
        /\ dev'[1].rpc = "TableWrite"
        /\ dev'[1].entry.table_id = Id(p4info, "send_frame")
        /\ dev'[1].entry.match.value = op'.arg.port_num
        /\ dev'[1].entry.params = <<[param |-> "smac", value |-> op'.arg.mac_addr]>>]_vars

\* The entries of the response that answer the query: those of the counter
\* named, at the index asked for.
Answers(info, query, rpcs) ==
  IF rpcs = <<>> THEN {}
  ELSE {k \in 1 .. Len(rpcs[1].entries) :
          /\ query.counter_name = KnownCounter
          /\ rpcs[1].entries[k].counter_id = Id(info, query.counter_name)
          /\ rpcs[1].entries[k].index = query.index}

\* C21: on a description that exists, the caller of query_counter gets
\* success with the packets and bytes of the response's entry for the
\* counter and index, whatever their values, whenever the name resolves and
\* the response has such an entry, and not_found exactly when the name is
\* unknown or the response has no such entry; it returns what the handler of
\* its command promised.
C21_QueryCounterResult ==
  [][/\ (op'.name = "CounterQueryHandler" /\ LiveDescription
         /\ cli'.pc = "wait_counter")
        => LET res == query_counter(cli'.promise.value)
               S == Answers(p4info, op'.arg, dev')
           IN /\ cli'.promise.state = "set"
              /\ (res.rc # 0) <=> (S = {})
              /\ \A k \in S : (\A j \in S : k <= j)
                   => /\ res.rc = 0
                      /\ res.packets = dev'[1].entries[k].data.packets
                      /\ res.bytes = dev'[1].entries[k].data.bytes
     /\ op'.name = "query_counter"
        => /\ cli.promise.state = "set"
           /\ op'.arg = query_counter(cli.promise.value)
           /\ op'.rc = op'.arg.rc]_vars

\* C22: handling a punted packet changes neither the interface list nor the
\* next-hop table nor the active description (nor releases one), and every
\* destination with a pending queue has a next hop.
C22_PacketsKeepConfiguration ==
  [][/\ op'.name = "PacketHandler"
        => UNCHANGED <<ifaces, next_hops, p4info, destroyed>>
     /\ \A d \in DOMAIN packet_queues' : d \in DOMAIN next_hops']_vars

\* An ARP reply has drained the queue of its sender while another
\* destination still has a pending queue.
C22_Witness ==
  /\ op.name = "PacketHandler"
  /\ IsArp(op.arg, 2)
  /\ out # <<>>
  /\ dev # <<>>
  /\ op.arg.arp.proto_src_addr \notin DOMAIN packet_queues
  /\ DOMAIN packet_queues # {}
  /\ ifaces # <<>>

====
